---------------------------- MODULE Spec2Model ----------------------------
(***************************************************************************)
(* rs_img2pdf: a directory of images is converted into one PDF, one image  *)
(* per page.  The model follows src/src/converter.rs (ImageToPdfConverter) *)
(* and the call made by src/src/main.rs.                                   *)
(*                                                                         *)
(* Strings are sequences of one-character strings; CodeOf gives the byte   *)
(* of each character, so that String's Ord (byte-lexicographic) can be     *)
(* computed.  "<FF>" stands for the single byte 0xFF, which never occurs   *)
(* in valid UTF-8: a file name holding it is a name for which              *)
(* OsStr::to_str() returns None.                                           *)
(***************************************************************************)
EXTENDS Integers, Sequences, FiniteSets, TLC

VARIABLES
    dir,          \* the entries of the input directory (unchanged by a run)
    pending,      \* entries WalkDir has not yielded yet
    walked,       \* names of the entries WalkDir yielded, in order
    image_files,  \* the BTreeMap<String, PathBuf> of collect_and_sort_images
    sorted_files, \* the Vec<PathBuf> convert iterates over
    index,        \* number of completed loop iterations of convert
    image,        \* the DynamicImage of the current iteration (<<>>: none)
    page_size,    \* <<page_width, page_height>> of add_image_as_page
    next_id,      \* convert's next_id (0: not yet declared)
    page_ids,     \* convert's page_ids
    objs,         \* the objects written into the Pdf, in emission order
    opened,       \* paths handed to image::open, in order
    pc,           \* position in convert / main
    err,          \* the AppError convert returned ("" : none)
    writes,       \* calls of fs::write made by this run
    output,       \* content of the output file
    exit_code,    \* process exit status (-1: still running)
    run,          \* 1 or 2: which invocation of the program this is
    prev          \* what the first invocation wrote, and the entry it
                  \* enumerated first

vars == <<dir, pending, walked, image_files, sorted_files, index, image,
          page_size, next_id, page_ids, objs, opened, pc, err, writes, output,
          exit_code, run, prev>>

-----------------------------------------------------------------------------
(* Bounds of the model *)

\* Largest number of entries in the input directory.
MaxFiles == 3

\* Largest pixel width and height of the images the geometry is checked on.
MaxDim == 65535

-----------------------------------------------------------------------------
(* Characters and strings *)

CodeOf ==
    ("!" :> 33) @@ ("." :> 46) @@
    ("0" :> 48) @@ ("1" :> 49) @@ ("2" :> 50) @@ ("3" :> 51) @@ ("4" :> 52) @@
    ("5" :> 53) @@ ("6" :> 54) @@ ("7" :> 55) @@ ("8" :> 56) @@ ("9" :> 57) @@
    ("G" :> 71) @@ ("J" :> 74) @@ ("P" :> 80) @@
    ("a" :> 97) @@ ("b" :> 98) @@ ("c" :> 99) @@ ("d" :> 100) @@ ("e" :> 101) @@
    ("g" :> 103) @@ ("i" :> 105) @@ ("j" :> 106) @@ ("m" :> 109) @@
    ("n" :> 110) @@ ("o" :> 111) @@ ("p" :> 112) @@
    ("s" :> 115) @@ ("t" :> 116) @@ ("w" :> 119) @@
    ("x" :> 120) @@ ("<FF>" :> 255)

Chars == DOMAIN CodeOf

\* char::is_ascii_digit
IsAsciiDigit(c) == CodeOf[c] >= 48 /\ CodeOf[c] <= 57

\* OsStr::to_str succeeds exactly on valid UTF-8.
IsUtf8(s) == \A i \in 1..Len(s) : CodeOf[s[i]] < 128

\* str::to_lowercase, on the ASCII letters of the alphabet.
LowerChar(c) ==
    IF CodeOf[c] >= 65 /\ CodeOf[c] <= 90
    THEN CHOOSE d \in Chars : CodeOf[d] = CodeOf[c] + 32
    ELSE c

ToLowercase(s) == [i \in 1..Len(s) |-> LowerChar(s[i])]

\* Ord for String: byte-lexicographic, a proper prefix is smaller.
StrLess(a, b) ==
    \E i \in 1..(Len(b)) :
        /\ i <= Len(a) + 1
        /\ \A j \in 1..(i - 1) : a[j] = b[j]
        /\ \/ i = Len(a) + 1
           \/ CodeOf[a[i]] < CodeOf[b[i]]

\* Position of the last '.' among the first i characters of s (0: none).
RECURSIVE LastDotUpTo(_, _)
LastDotUpTo(s, i) ==
    IF i = 0 THEN 0
    ELSE IF s[i] = "." THEN i
    ELSE LastDotUpTo(s, i - 1)

\* Position of the last '.' of s (0: none).
LastDot(s) == LastDotUpTo(s, Len(s))

\* Path::extension: the part after the last '.', when the name holds a '.'
\* that is not its first character.  <<"?">> stands for None.
NoExtension == <<"?">>
Extension(name) ==
    LET dot == LastDot(name)
    IN  IF dot <= 1 THEN NoExtension ELSE SubSeq(name, dot + 1, Len(name))

\* Path::file_stem: the name without its extension.
FileStem(name) ==
    LET dot == LastDot(name)
    IN  IF dot <= 1 THEN name ELSE SubSeq(name, 1, dot - 1)

-----------------------------------------------------------------------------
(* u32 parsing and formatting.  A u32 value is held as its decimal digits  *)
(* without leading zeros (<<>> is zero): 4294967295 does not fit the       *)
(* 32-bit signed integers of TLC.                                          *)

\* u32::MAX = 4294967295
U32MaxDigits == <<"4", "2", "9", "4", "9", "6", "7", "2", "9", "5">>

\* Width of the zero padding in format!("{:010}", num).
PadWidth == 10

RECURSIVE StripZeros(_)
StripZeros(ds) ==
    IF ds # <<>> /\ Head(ds) = "0" THEN StripZeros(Tail(ds)) ELSE ds

\* a < b for two u32 values.
NumLess(a, b) ==
    \/ Len(a) < Len(b)
    \/ Len(a) = Len(b) /\ StrLess(a, b)

\* str::parse::<u32> on a non-empty string of ASCII digits: Err exactly when
\* the value exceeds u32::MAX.  <<"?">> stands for Err.
ParseErr == <<"?">>
ParseU32(ds) ==
    LET num == StripZeros(ds)
    IN  IF NumLess(U32MaxDigits, num) THEN ParseErr ELSE num

\* format!("{:010}", num): at least PadWidth characters, zeros on the left.
RECURSIVE ZeroPad(_, _)
ZeroPad(ds, width) ==
    IF Len(ds) >= width THEN ds ELSE ZeroPad(<<"0">> \o ds, width)

Format010(num) == ZeroPad(num, PadWidth)

\* file_stem.chars().filter(|c| c.is_ascii_digit()).collect()
NumericPart(stem) == SelectSeq(stem, IsAsciiDigit)

\* extract_numeric_sort_key; <<"?">> stands for None.
NoKey == <<"?">>
extract_numeric_sort_key(name) ==
    LET file_stem == FileStem(name)
        numeric_part == NumericPart(file_stem)
        num == ParseU32(numeric_part)
    IN  IF ~IsUtf8(file_stem) THEN NoKey
        ELSE IF numeric_part = <<>> THEN NoKey
        ELSE IF num = ParseErr THEN NoKey
        ELSE Format010(num)

\* path.file_name().and_then(|name| name.to_str()).unwrap_or("")
FallbackKey(name) == IF IsUtf8(name) THEN name ELSE <<>>

\* The key under which collect_and_sort_images inserts a file.
SortKey(name) ==
    LET sort_key == extract_numeric_sort_key(name)
    IN  IF sort_key # NoKey THEN sort_key ELSE FallbackKey(name)

\* ImageToPdfConverter::new
supported_extensions ==
    { <<"j", "p", "g">>, <<"j", "p", "e", "g">>, <<"p", "n", "g">>,
      <<"w", "e", "b", "p">> }

\* The filter without to_lowercase: the extension is compared as written.
QualifiesCaseSensitive(e) ==
    LET extension == Extension(e.name)
    IN  /\ e.kind = "file"
        /\ extension # NoExtension
        /\ extension \in supported_extensions

\* The filter of collect_and_sort_images: a regular file whose lowercased
\* extension is supported.
Qualifies(e) ==
    LET extension == Extension(e.name)
    IN  /\ e.kind = "file"
        /\ extension # NoExtension
        /\ ToLowercase(extension) \in supported_extensions

\* A map insertion that keeps the value an existing key has (what
\* entry(key).or_insert(value) would do).
MapInsertKeepFirst(m, k, v) ==
    [x \in (DOMAIN m) \cup {k} |-> IF x \in DOMAIN m THEN m[x] ELSE v]

\* BTreeMap::insert: the value of an existing key is replaced.
MapInsert(m, k, v) ==
    [x \in (DOMAIN m) \cup {k} |-> IF x = k THEN v ELSE m[x]]

\* The values in descending order of their keys (a reversed comparison).
RECURSIVE IntoValuesDescending(_)
IntoValuesDescending(m) ==
    IF DOMAIN m = {} THEN <<>>
    ELSE LET k == CHOOSE x \in DOMAIN m :
                     \A y \in (DOMAIN m) \ {x} : StrLess(y, x)
         IN  <<m[k]>> \o
             IntoValuesDescending([x \in (DOMAIN m) \ {k} |-> m[x]])

\* BTreeMap::into_values: the values in ascending order of their keys.
RECURSIVE IntoValues(_)
IntoValues(m) ==
    IF DOMAIN m = {} THEN <<>>
    ELSE LET k == CHOOSE x \in DOMAIN m :
                     \A y \in (DOMAIN m) \ {x} : StrLess(x, y)
         IN  <<m[k]>> \o IntoValues([x \in (DOMAIN m) \ {k} |-> m[x]])

-----------------------------------------------------------------------------
(* f32 arithmetic.  A positive f32 is [m, e], the value m * 2^e with       *)
(* 2^23 <= m < 2^24 (24 significant bits); zero is [m |-> 0, e |-> 0].     *)
(* Every operation rounds to nearest, ties to even, as IEEE 754 does.      *)

\* Significant bits of an f32.
MantissaBits == 24

Pow2(n) == 2 ^ n

\* Number of bits of n > 0.
BitLen(n) == CHOOSE b \in 1..31 : Pow2(b - 1) <= n /\ (b = 31 \/ n < Pow2(b))

\* n / d rounded to the nearest integer, ties to even.
RoundDivEven(n, d) ==
    LET q == n \div d
        r == n % d
    IN  IF 2 * r > d \/ (2 * r = d /\ q % 2 = 1) THEN q + 1 ELSE q

\* The f32 nearest to n * 2^e, for an integer n >= 0.
RoundF32(n, e) ==
    IF n = 0 THEN [m |-> 0, e |-> 0]
    ELSE IF BitLen(n) <= MantissaBits
    THEN [m |-> n * Pow2(MantissaBits - BitLen(n)),
          e |-> e - (MantissaBits - BitLen(n))]
    ELSE LET r == BitLen(n) - MantissaBits
             q == RoundDivEven(n, Pow2(r))
         IN  IF q = Pow2(MantissaBits)
             THEN [m |-> Pow2(MantissaBits - 1), e |-> e + r + 1]
             ELSE [m |-> q, e |-> e + r]

\* `n as f32` for a u32 n.
U32AsF32(n) == RoundF32(n, 0)

\* x / d in f32, d a small positive integer (exactly representable).
F32Div(x, d) ==
    IF x.m = 0 THEN x
    ELSE LET k == CHOOSE j \in 0..(MantissaBits + 7) :
                      /\ (x.m * Pow2(j)) \div d >= Pow2(MantissaBits - 1)
                      /\ \A i \in 0..(j - 1) :
                             (x.m * Pow2(i)) \div d < Pow2(MantissaBits - 1)
             q == RoundDivEven(x.m * Pow2(k), d)
         IN  IF q = Pow2(MantissaBits)
             THEN [m |-> Pow2(MantissaBits - 1), e |-> x.e - k + 1]
             ELSE [m |-> q, e |-> x.e - k]

\* x * c in f32, c a small positive integer (exactly representable).
F32Mul(x, c) == RoundF32(x.m * c, x.e)

\* Whether the f32 x is exactly the integer n.
F32IsInt(x, n) ==
    IF x.m = 0 THEN n = 0
    ELSE IF x.e >= 0 THEN x.m * Pow2(x.e) = n
    ELSE x.m = n * Pow2(-x.e)

\* let dpi = 72.0_f32;
dpi == 72

\* The 72.0 points per inch of `/ dpi * 72.0`.
PointsPerInch == 72

\* The page size at 96 pixels per inch.
PageSizeAt96Dpi(pixels) ==
    F32Mul(F32Div(U32AsF32(pixels), 96), PointsPerInch)

\* img_width as f32 / dpi * 72.0
PageSize(pixels) == F32Mul(F32Div(U32AsF32(pixels), dpi), PointsPerInch)

-----------------------------------------------------------------------------
(* The input directory.  An entry is a direct child of the directory: its  *)
(* name, whether it is a regular file, and what the codec makes of its     *)
(* bytes: the pixel dimensions image::open decodes (decodes = FALSE: it    *)
(* returns an error) and whether the JPEG encoder accepts the image.       *)
(* The directory itself, which WalkDir yields first, is skipped by         *)
(* path.is_file() as every subdirectory is.                                *)

Entry(n, k, w, h, d, j) ==
    [name |-> n, kind |-> k, width |-> w, height |-> h, decodes |-> d,
     encodes |-> j]

Universe ==
    {
      Entry(<<"a", "1", ".", "j", "p", "g">>,
            "file", 50, 50, TRUE, TRUE),
      Entry(<<"b", "2", ".", "p", "n", "g">>,
            "file", 100, 200, TRUE, TRUE),
      Entry(<<"c", "1", "0", ".", "w", "e", "b", "p">>,
            "file", 300, 300, TRUE, TRUE),
      Entry(<<"i", "m", "g", "0", "1", ".", "J", "P", "G">>,
            "file", 64, 48, TRUE, TRUE),
      Entry(<<"!", "x", ".", "j", "p", "e", "g">>,
            "file", 7, 5, TRUE, TRUE),
      Entry(<<"4", "2", "9", "4", "9", "6", "7", "2", "9", "5", ".", "p", "n", "g">>,
            "file", 0, 0, FALSE, FALSE),
      Entry(<<"4", "2", "9", "4", "9", "6", "7", "2", "9", "6", ".", "p", "n", "g">>,
            "file", 70000, 10, TRUE, FALSE),
      Entry(<<"n", "o", "t", "e", "s", ".", "t", "x", "t">>,
            "file", 0, 0, FALSE, FALSE),
      Entry(<<"d", "3", ".", "p", "n", "g">>,
            "dir", 0, 0, FALSE, FALSE),
      Entry(<<"<FF>", "7", ".", "p", "n", "g">>,
            "file", 11, 12, TRUE, TRUE),
      Entry(<<"<FF>", ".", "p", "n", "g">>,
            "file", 13, 14, TRUE, TRUE)
    }

\* The entry of a path: names are unique within a directory.
EntryOf(n) == CHOOSE e \in dir : e.name = n

-----------------------------------------------------------------------------
(* Program constants *)

\* let catalog_id = Ref::new(1);
catalog_id == 1

\* let page_tree_id = Ref::new(2);
page_tree_id == 2

\* let mut next_id = 3;
FirstId == 3

\* std::process::exit(1)
ExitFailure == 1

\* Content of the output file before the program ever wrote it.
Untouched == <<"untouched">>

\* Content of the output file after an fs::write that failed part-way.
Truncated == <<"truncated">>

-----------------------------------------------------------------------------
(* The state after main has parsed its arguments and built the converter. *)

Directories == {d \in SUBSET Universe : Cardinality(d) <= MaxFiles}

Start(d) ==
    /\ dir = d
    /\ pending = d
    /\ walked = <<>>
    /\ image_files = <<>>
    /\ sorted_files = <<>>
    /\ index = 0
    /\ image = <<>>
    /\ page_size = <<>>
    /\ next_id = 0
    /\ page_ids = <<>>
    /\ objs = <<>>
    /\ opened = <<>>
    /\ pc = "scan"
    /\ err = ""
    /\ writes = 0
    /\ output = Untouched
    /\ exit_code = -1
    /\ run = 1
    /\ prev = <<>>

Init == \E d \in Directories : Start(d)

-----------------------------------------------------------------------------
(* collect_and_sort_images *)

\* The loop body with the files keyed by their order of arrival instead of
\* their names: the directory order becomes the page order.
CollectEntryByArrival(m, e) ==
    IF Qualifies(e)
    THEN MapInsert(m,
                   Format010(<<<<"0", "1", "2", "3", "4", "5", "6", "7", "8",
                                 "9">>[Cardinality(DOMAIN m) + 1]>>),
                   e.name)
    ELSE m

\* The body of the for loop over WalkDir for one entry.
CollectEntry(m, e) ==
    IF Qualifies(e) THEN MapInsert(m, SortKey(e.name), e.name) ELSE m

\* WalkDir yields the entries in an order the file system decides.
WalkEntry(e) ==
    /\ pc = "scan"
    /\ e \in pending
    /\ pending' = pending \ {e}
    /\ walked' = Append(walked, e.name)
    /\ image_files' = CollectEntry(image_files, e)
    /\ UNCHANGED <<dir, sorted_files, index, image, next_id, page_ids, objs,
                   opened, pc, err, writes, output, exit_code, run, prev,
                   page_size>>

\* `let entry = entry?;` on an entry WalkDir cannot read.
WalkError ==
    /\ pc = "scan"
    /\ pc' = "failed"
    /\ err' = "WalkDir"
    /\ UNCHANGED <<dir, pending, walked, image_files, sorted_files, index,
                   image, next_id, page_ids, objs, opened, writes, output,
                   exit_code, run, prev,
                   page_size>>

\* The loop is over: image_files.into_values().collect()
CollectDone ==
    /\ pc = "scan"
    /\ pending = {}
    /\ sorted_files' = IntoValues(image_files)
    /\ pc' = "collected"
    /\ UNCHANGED <<dir, pending, walked, image_files, index, image, next_id,
                   page_ids, objs, opened, err, writes, output, exit_code,
                   run, prev,
                   page_size>>

-----------------------------------------------------------------------------
(* convert *)

\* if image_files.is_empty() { return Err(AppError::NoImagesFound(..)) }
NoImagesFound ==
    /\ pc = "collected"
    /\ sorted_files = <<>>
    /\ pc' = "failed"
    /\ err' = "NoImagesFound"
    /\ UNCHANGED <<dir, pending, walked, image_files, sorted_files, index,
                   image, next_id, page_ids, objs, opened, writes, output,
                   exit_code, run, prev,
                   page_size>>

\* Pdf::new(), page_ids = Vec::new(), next_id = 3
PdfNew ==
    /\ pc = "collected"
    /\ sorted_files # <<>>
    /\ next_id' = FirstId
    /\ page_ids' = <<>>
    /\ objs' = <<>>
    /\ pc' = "loop"
    /\ UNCHANGED <<dir, pending, walked, image_files, sorted_files, index,
                   image, opened, err, writes, output, exit_code, run, prev,
                   page_size>>

\* Whether the for loop of convert has a next file.
HasNextFile == index < Len(sorted_files)

\* process_image: image::open(file_path)? succeeds.
ProcessImageOk ==
    /\ pc = "loop"
    /\ HasNextFile
    /\ EntryOf(sorted_files[index + 1]).decodes
    /\ opened' = Append(opened, sorted_files[index + 1])
    /\ image' = [src |-> sorted_files[index + 1],
                 width |-> EntryOf(sorted_files[index + 1]).width,
                 height |-> EntryOf(sorted_files[index + 1]).height]
    /\ pc' = "add"
    /\ UNCHANGED <<dir, pending, walked, image_files, sorted_files, index,
                   next_id, page_ids, objs, err, writes, output, exit_code,
                   run, prev,
                   page_size>>

\* A file that does not decode is skipped and the loop goes on.
ProcessImageSkip ==
    /\ pc = "loop"
    /\ HasNextFile
    /\ ~EntryOf(sorted_files[index + 1]).decodes
    /\ opened' = Append(opened, sorted_files[index + 1])
    /\ index' = index + 1
    /\ UNCHANGED <<dir, pending, walked, image_files, sorted_files, image,
                   next_id, page_ids, objs, pc, err, writes, output,
                   exit_code, run, prev,
                   page_size>>

\* process_image: image::open(file_path)? fails, and convert returns.
ProcessImageErr ==
    /\ pc = "loop"
    /\ HasNextFile
    /\ ~EntryOf(sorted_files[index + 1]).decodes
    /\ opened' = Append(opened, sorted_files[index + 1])
    /\ pc' = "failed"
    /\ err' = "Image"
    /\ UNCHANGED <<dir, pending, walked, image_files, sorted_files, index,
                   image, next_id, page_ids, objs, writes, output, exit_code,
                   run, prev,
                   page_size>>

\* page_id = Ref::new(next_id); next_id += 1; then, in add_image_as_page,
\* img.dimensions() and the page size in points.
PageGeometry ==
    /\ pc = "add"
    /\ next_id' = next_id + 1
    /\ page_size' = <<PageSize(image.width), PageSize(image.height)>>
    /\ pc' = "encode"
    /\ UNCHANGED <<dir, pending, walked, image_files, sorted_files, index,
                   image, page_ids, objs, opened, err, writes, output,
                   exit_code, run, prev>>

\* The three objects add_image_as_page writes for the image img:
\* image_id = *next_id, content_id = *next_id + 1 (next_id already counts
\* the page id), in the order image XObject, content stream, page.
PageObjects(page_id, img, size, nid) ==
    << [kind |-> "Image", id |-> nid, filter |-> "DctDecode",
        width |-> img.width, height |-> img.height,
        color_space |-> "DeviceRGB", bits_per_component |-> 8,
        src |-> img.src],
       [kind |-> "Stream", id |-> nid + 1,
        scale_x |-> size[1], scale_y |-> size[2], paints |-> "Im1"],
       [kind |-> "Page", id |-> page_id,
        media_box |-> <<U32AsF32(0), U32AsF32(0), size[1], size[2]>>,
        contents |-> nid + 1, Im1 |-> nid, src |-> img.src] >>

\* add_image_as_page without the `*next_id += 1` after the content id.
NextIdAfterPageOffByOne(nid) == nid + 1

\* The value of *next_id when add_image_as_page returns Ok.
NextIdAfterPage(nid) == nid + 2

\* image_to_jpeg_bytes(img)? succeeds: the rest of add_image_as_page, and
\* page_ids.push(page_id).
AddImageAsPageOk ==
    /\ pc = "encode"
    /\ EntryOf(image.src).encodes
    /\ objs' = objs \o PageObjects(next_id - 1, image, page_size, next_id)
    /\ next_id' = NextIdAfterPage(next_id)
    /\ page_ids' = Append(page_ids, next_id - 1)
    /\ index' = index + 1
    /\ image' = <<>>
    /\ page_size' = <<>>
    /\ pc' = "loop"
    /\ UNCHANGED <<dir, pending, walked, image_files, sorted_files, opened,
                   err, writes, output, exit_code, run, prev>>

\* image_to_jpeg_bytes(img)? fails inside add_image_as_page: nothing is
\* written into the Pdf, and convert returns.
AddImageAsPageErr ==
    /\ pc = "encode"
    /\ ~EntryOf(image.src).encodes
    /\ pc' = "failed"
    /\ err' = "Image"
    /\ UNCHANGED <<dir, pending, walked, image_files, sorted_files, index,
                   image, page_size, next_id, page_ids, objs, opened, writes,
                   output, exit_code, run, prev>>

\* The page tree object: kids and count.
PageTreeObject(ids) ==
    [kind |-> "Pages", id |-> page_tree_id, kids |-> ids, count |-> Len(ids)]

\* The page tree written inside the loop, once a file has been processed.
LoopEndedEarly == index >= 1

\* When the page tree may be written: the for loop has ended.
LoopEnded == ~HasNextFile

\* pdf.pages(page_tree_id) .. page_tree.finish()
PageTree ==
    /\ pc = "loop"
    /\ LoopEnded
    /\ objs' = Append(objs, PageTreeObject(page_ids))
    /\ pc' = "catalog"
    /\ UNCHANGED <<dir, pending, walked, image_files, sorted_files, index,
                   image, next_id, page_ids, opened, err, writes, output,
                   exit_code, run, prev,
                   page_size>>

\* pdf.catalog(catalog_id) .. catalog.finish()
Catalog ==
    /\ pc = "catalog"
    /\ objs' = Append(objs, [kind |-> "Catalog", id |-> catalog_id,
                             pages |-> page_tree_id])
    /\ pc' = "save"
    /\ UNCHANGED <<dir, pending, walked, image_files, sorted_files, index,
                   image, next_id, page_ids, opened, err, writes, output,
                   exit_code, run, prev,
                   page_size>>

\* let bytes = pdf.finish(); fs::write(output_file, bytes)? succeeds.
SaveOk ==
    /\ pc = "save"
    /\ writes' = writes + 1
    /\ output' = objs
    /\ pc' = "ok"
    /\ UNCHANGED <<dir, pending, walked, image_files, sorted_files, index,
                   image, next_id, page_ids, objs, opened, err, exit_code,
                   run, prev,
                   page_size>>

\* fs::write(output_file, bytes)? fails: the file could not be created (it
\* is as it was) or not be written in full.
SaveErr ==
    /\ pc = "save"
    /\ writes' = writes + 1
    /\ output' \in {output, Truncated}
    /\ pc' = "failed"
    /\ err' = "Io"
    /\ UNCHANGED <<dir, pending, walked, image_files, sorted_files, index,
                   image, next_id, page_ids, objs, opened, exit_code, run,
                   prev,
                   page_size>>

-----------------------------------------------------------------------------
(* main *)

\* Ok(_) => info!(..); main returns Ok(()).
ExitOk ==
    /\ pc = "ok"
    /\ exit_code' = 0
    /\ pc' = "exited"
    /\ UNCHANGED <<dir, pending, walked, image_files, sorted_files, index,
                   image, next_id, page_ids, objs, opened, err, writes,
                   output, run, prev,
                   page_size>>

\* Err(e) => { error!(..); std::process::exit(1); }
ExitErr ==
    /\ pc = "failed"
    /\ exit_code' = ExitFailure
    /\ pc' = "exited"
    /\ UNCHANGED <<dir, pending, walked, image_files, sorted_files, index,
                   image, next_id, page_ids, objs, opened, err, writes,
                   output, run, prev,
                   page_size>>

\* The program is run a second time on the same directory and output path,
\* after a first run that succeeded.
RunAgain ==
    /\ pc = "exited"
    /\ exit_code = 0
    /\ run = 1
    /\ run' = 2
    /\ prev' = [objs |-> objs, page_ids |-> page_ids, next_id |-> next_id,
                first_walked |-> walked[1]]
    /\ pending' = dir
    /\ walked' = <<>>
    /\ image_files' = <<>>
    /\ sorted_files' = <<>>
    /\ index' = 0
    /\ image' = <<>>
    /\ page_size' = <<>>
    /\ next_id' = 0
    /\ page_ids' = <<>>
    /\ objs' = <<>>
    /\ opened' = <<>>
    /\ pc' = "scan"
    /\ err' = ""
    /\ writes' = 0
    /\ exit_code' = -1
    /\ UNCHANGED <<dir, output>>

Next ==
    \/ \E e \in pending : WalkEntry(e)
    \/ WalkError
    \/ CollectDone
    \/ NoImagesFound
    \/ PdfNew
    \/ ProcessImageOk
    \/ ProcessImageErr
    \/ PageGeometry
    \/ AddImageAsPageOk
    \/ AddImageAsPageErr
    \/ PageTree
    \/ Catalog
    \/ SaveOk
    \/ SaveErr
    \/ ExitOk
    \/ ExitErr
    \/ RunAgain

Spec == Init /\ [][Next]_vars

-----------------------------------------------------------------------------
(* One run of the program on directories of at most one image, whose    *)
(* pixel width and height each take every value up to MaxDim.              *)

GeomName == <<"a", "1", ".", "j", "p", "g">>

GeomSizes == {<<w, MaxDim + 1 - w>> : w \in 1..MaxDim}

\* 9437189, a width no JPEG holds but a PNG may.
LargeWidth == 9 * Pow2(20) + 5

GeomDirectories ==
    {{}} \cup
    {{Entry(GeomName, "file", 1, 1, FALSE, FALSE)},
     {Entry(GeomName, "file", LargeWidth, 1, TRUE, FALSE)}} \cup
    {{Entry(GeomName, "file", size[1], size[2], TRUE, TRUE)} :
        size \in GeomSizes}

InitGeom == \E d \in GeomDirectories : Start(d)

NextGeom ==
    \/ \E e \in pending : WalkEntry(e)
    \/ WalkError
    \/ CollectDone
    \/ NoImagesFound
    \/ PdfNew
    \/ ProcessImageOk
    \/ ProcessImageErr
    \/ PageGeometry
    \/ AddImageAsPageOk
    \/ AddImageAsPageErr
    \/ PageTree
    \/ Catalog
    \/ SaveOk
    \/ SaveErr
    \/ ExitOk
    \/ ExitErr

SpecGeom == InitGeom /\ [][NextGeom]_vars

-----------------------------------------------------------------------------
(* Properties *)

\* The supported image files as the specification describes them: regular
\* files whose extension is jpg, jpeg, png or webp, in any letter case.
HasImageExtension(n) ==
    /\ LastDot(n) > 1
    /\ ToLowercase(SubSeq(n, LastDot(n) + 1, Len(n))) \in
           { <<"j", "p", "g">>, <<"j", "p", "e", "g">>, <<"p", "n", "g">>,
             <<"w", "e", "b", "p">> }

\* The file names of the model, and for each whether it has an image
\* extension and the sort key the program derives from it.
Names == {e.name : e \in Universe}
ImageName == [n \in Names |-> HasImageExtension(n)]
KeyOf == [n \in Names |-> SortKey(n)]

IsImageFile(e) == e.kind = "file" /\ ImageName[e.name]

ImageFiles == {e \in dir : IsImageFile(e)}

\* convert is past its for loop.
Finalizing == pc \in {"catalog", "save", "ok"}

\* The positions of the objects of one kind in the Pdf.
ObjectsOfKind(k) == {i \in 1..Len(objs) : objs[i].kind = k}

\* C1: a run over N files uses exactly the identifiers 1..2+3N: 1 for the
\* catalog, 2 for the page tree, and for the k-th file the page id 3k, the
\* image id 3k+1 and the content id 3k+2; at the head of the loop next_id is
\* 3 + 3 * (files processed); no identifier is written twice.
C1_IdentifierAllocation ==
    /\ pc = "loop" \/ Finalizing => next_id = 3 + 3 * index
    /\ pc = "add" => next_id = 3 + 3 * index
    /\ pc = "encode" => next_id = 3 + 3 * index + 1
    /\ pc \in {"loop", "add", "encode"} \/ Finalizing =>
         /\ Len(page_ids) = index
         /\ \A k \in 1..index :
              /\ page_ids[k] = 3 * k
              /\ objs[3 * k - 2].kind = "Image" /\ objs[3 * k - 2].id = 3 * k + 1
              /\ objs[3 * k - 1].kind = "Stream" /\ objs[3 * k - 1].id = 3 * k + 2
              /\ objs[3 * k].kind = "Page" /\ objs[3 * k].id = 3 * k
              /\ objs[3 * k].Im1 = 3 * k + 1
              /\ objs[3 * k].contents = 3 * k + 2
    /\ \A i, j \in 1..Len(objs) : i # j => objs[i].id # objs[j].id
    /\ pc \in {"save", "ok"} =>
         /\ Len(objs) = 2 + 3 * Len(sorted_files)
         /\ {objs[i].id : i \in 1..Len(objs)} = 1..(2 + 3 * Len(sorted_files))

\* A run that wrote three pages.
C1_Witness == pc = "ok" /\ Len(sorted_files) = 3 /\ Len(objs) = 11

\* The position of a page id in the kid list of the page tree (0: absent).
KidPosition(id) ==
    IF ObjectsOfKind("Pages") = {} THEN 0
    ELSE LET kids == objs[CHOOSE i \in ObjectsOfKind("Pages") : TRUE].kids
         IN  IF \E p \in 1..Len(kids) : kids[p] = id
             THEN CHOOSE p \in 1..Len(kids) : kids[p] = id
             ELSE 0

\* C2: the files are processed one at a time in ascending order of their sort
\* keys, and in a successful run the page of a file with the smaller key has
\* the smaller page id and comes first in the kid list, whatever the order in
\* which the directory was enumerated.
C2_ProcessedInKeyOrder ==
    /\ \A i, j \in 1..Len(sorted_files) :
         i < j => StrLess(KeyOf[sorted_files[i]], KeyOf[sorted_files[j]])
    /\ Len(opened) <= Len(sorted_files)
    /\ opened = SubSeq(sorted_files, 1, Len(opened))
    /\ pc = "loop" => Len(opened) = index
    /\ pc = "ok" =>
         /\ Cardinality(ObjectsOfKind("Page")) = Len(sorted_files)
         /\ \A f \in 1..Len(sorted_files) :
              \E i \in ObjectsOfKind("Page") : objs[i].src = sorted_files[f]
         /\ \A i, j \in ObjectsOfKind("Page") :
              StrLess(KeyOf[objs[i].src], KeyOf[objs[j].src]) =>
                  /\ objs[i].id < objs[j].id
                  /\ KidPosition(objs[i].id) > 0
                  /\ KidPosition(objs[i].id) < KidPosition(objs[j].id)

\* A successful run whose directory was enumerated against the key order.
C2_Witness ==
    /\ pc = "ok"
    /\ Len(sorted_files) >= 2
    /\ \E i, j \in 1..Len(walked) :
         /\ i < j
         /\ IsImageFile(EntryOf(walked[i])) /\ IsImageFile(EntryOf(walked[j]))
         /\ StrLess(KeyOf[walked[j]], KeyOf[walked[i]])

\* The last position at which walked holds an image file with sort key k.
LastWalkedWithKey(k) ==
    CHOOSE i \in 1..Len(walked) :
        /\ IsImageFile(EntryOf(walked[i])) /\ KeyOf[walked[i]] = k
        /\ \A j \in (i + 1)..Len(walked) :
             ~(IsImageFile(EntryOf(walked[j])) /\ KeyOf[walked[j]] = k)

WalkedKeys ==
    {KeyOf[walked[i]] :
        i \in {j \in 1..Len(walked) : IsImageFile(EntryOf(walked[j]))}}

\* C4: of the image files that derive one sort key, the scan keeps exactly
\* the one enumerated last and drops the others without an error: the
\* ordered output holds one path per distinct key, and a successful run has
\* as many pages as there are distinct keys.
C4_LastEnumeratedWins ==
    /\ DOMAIN image_files = WalkedKeys
    /\ \A k \in DOMAIN image_files :
         image_files[k] = walked[LastWalkedWithKey(k)]
    /\ pc \notin {"scan"} /\ err # "WalkDir" =>
         /\ Len(sorted_files) =
                Cardinality({KeyOf[e.name] : e \in ImageFiles})
         /\ \A k \in DOMAIN image_files :
              Cardinality({i \in 1..Len(sorted_files) :
                             KeyOf[sorted_files[i]] = k}) = 1
         /\ \A i \in 1..Len(sorted_files) :
              sorted_files[i] = image_files[KeyOf[sorted_files[i]]]
    /\ pc = "ok" =>
         Len(page_ids) = Cardinality({KeyOf[e.name] : e \in ImageFiles})

\* A successful run over a directory in which two image files share a key.
C4_Witness ==
    /\ pc = "ok"
    /\ Cardinality(ImageFiles) > Len(page_ids)


\* The sort key the specification gives a file name: the ASCII digits of
\* the stem, when there are some and they parse as a u32, zero-padded to ten
\* characters; otherwise the file name itself.
DocumentedKey(n) ==
    LET digits == SelectSeq(FileStem(n), IsAsciiDigit)
    IN  IF digits # <<>> /\ ParseU32(digits) # ParseErr
        THEN Format010(ParseU32(digits))
        ELSE n

DocumentedKeyOf == [n \in Names |-> DocumentedKey(n)]

\* C3: every file is collected under the key the specification gives it: ten
\* ASCII digits when the digits of its stem parse as a u32, else the literal
\* file name with its extension.
C3_KeysAsDocumented ==
    \A k \in DOMAIN image_files : k = DocumentedKeyOf[image_files[k]]

\* The files whose name is valid UTF-8 are collected under the documented
\* key, and the ten-digit keys order such files as their numbers do.
Utf8KeysAsDocumented ==
    /\ \A k \in DOMAIN image_files :
         IsUtf8(image_files[k]) => k = DocumentedKeyOf[image_files[k]]
    /\ \A k1, k2 \in DOMAIN image_files :
         LET d1 == SelectSeq(FileStem(image_files[k1]), IsAsciiDigit)
             d2 == SelectSeq(FileStem(image_files[k2]), IsAsciiDigit)
         IN  /\ IsUtf8(image_files[k1]) /\ IsUtf8(image_files[k2])
             /\ d1 # <<>> /\ d2 # <<>>
             /\ ParseU32(d1) # ParseErr /\ ParseU32(d2) # ParseErr
             /\ NumLess(ParseU32(d1), ParseU32(d2))
             => Len(k1) = 10 /\ Len(k2) = 10 /\ StrLess(k1, k2)

\* The output file as this run found it.
OutputBefore == IF run = 1 THEN Untouched ELSE prev.objs

\* C5: an error aborts the run at once.  When decoding or re-encoding the
\* i-th file fails, no later file is opened, no file is opened twice, the
\* page tree and the catalog are not written, fs::write is not called and
\* the output file is as it was, and the process exits with a non-zero
\* status; fs::write is reached only after every file became a page.
C5_ErrorAborts ==
    /\ pc \in {"failed", "exited"} /\ err = "Image" =>
         /\ Len(opened) = index + 1
         /\ opened = SubSeq(sorted_files, 1, index + 1)
         /\ ObjectsOfKind("Pages") = {} /\ ObjectsOfKind("Catalog") = {}
         /\ writes = 0
         /\ output = OutputBefore
    /\ \A i, j \in 1..Len(opened) : i # j => opened[i] # opened[j]
    /\ pc = "failed" => err # "" /\ exit_code = -1
    /\ pc = "exited" /\ err # "" => exit_code # 0
    /\ err \notin {"", "Io"} => writes = 0 /\ output = OutputBefore
    /\ writes > 0 \/ Finalizing =>
         /\ opened = sorted_files
         /\ Len(page_ids) = Len(sorted_files)
         /\ \A i \in 1..Len(opened) :
              EntryOf(opened[i]).decodes /\ EntryOf(opened[i]).encodes

\* A run that failed on a file with a page before it and a file after it.
C5_Witness ==
    /\ pc = "exited"
    /\ err = "Image"
    /\ index >= 1
    /\ index + 1 < Len(sorted_files)

C7_FinalizedOnce ==
    /\ Cardinality(ObjectsOfKind("Pages")) <= 1
    /\ Cardinality(ObjectsOfKind("Catalog")) <= 1
    /\ writes <= 1
    /\ \A t \in ObjectsOfKind("Pages") :
         /\ index = Len(sorted_files)
         /\ t = 3 * Len(sorted_files) + 1
         /\ \A i \in 1..(t - 1) : objs[i].kind \in {"Image", "Stream", "Page"}
         /\ objs[t].id = page_tree_id
         /\ objs[t].kids = page_ids
         /\ objs[t].count = Len(page_ids)
         /\ objs[t].count = Cardinality(ObjectsOfKind("Page"))
         /\ \A i \in (t + 1)..Len(objs) :
              /\ i = t + 1
              /\ objs[i].kind = "Catalog"
              /\ objs[i].id = catalog_id
              /\ objs[i].pages = page_tree_id
    /\ ObjectsOfKind("Catalog") # {} => ObjectsOfKind("Pages") # {}
    /\ writes > 0 => ObjectsOfKind("Catalog") # {}
    /\ Finalizing => ObjectsOfKind("Pages") # {}
    /\ pc = "ok" =>
         /\ writes = 1
         /\ objs[Len(objs)].kind = "Catalog"
         /\ output = objs

\* A successful run that wrote two pages or more.
C7_Witness == pc = "ok" /\ Len(page_ids) >= 2 /\ writes = 1

\* No two image files of the directory derive the same sort key.
KeysDistinct ==
    \A e, f \in ImageFiles : e # f => KeyOf[e.name] # KeyOf[f.name]

\* C8 as stated: a second successful run writes the same document as the
\* first, whatever the two enumeration orders.
C8_SameDocument ==
    run = 2 /\ pc = "ok" => objs = prev.objs

\* C8, amended: the page count and the identifiers are the same whatever
\* the two enumeration orders; the files, their order and the page boxes
\* are the same when no two image files derive the same sort key.
C8_SameDocumentUnlessCollision ==
    run = 2 /\ pc = "ok" =>
        /\ page_ids = prev.page_ids
        /\ next_id = prev.next_id
        /\ Len(objs) = Len(prev.objs)
        /\ \A i \in 1..Len(objs) :
             objs[i].kind = prev.objs[i].kind /\ objs[i].id = prev.objs[i].id
        /\ KeysDistinct => objs = prev.objs

\* A second successful run over two files or more with distinct keys, whose
\* directory was enumerated in another order than in the first run.
C8_Witness ==
    /\ run = 2
    /\ pc = "ok"
    /\ Len(page_ids) >= 2
    /\ KeysDistinct
    /\ walked[1] # prev.first_walked
    /\ IsImageFile(EntryOf(walked[1]))
    /\ IsImageFile(EntryOf(prev.first_walked))
    /\ objs = prev.objs

\* Whether the ASCII digits of the stem of n parse as a u32, and that u32.
HasNumber(n) ==
    LET digits == SelectSeq(FileStem(n), IsAsciiDigit)
    IN  digits # <<>> /\ ParseU32(digits) # ParseErr

NumberOf(n) == ParseU32(SelectSeq(FileStem(n), IsAsciiDigit))

NumberedName == [n \in Names |-> HasNumber(n)]

\* C10 as stated: two image files share a sort key only when the digits of
\* both stems parse to the same u32, an image file is left out of the
\* ordered output only then, and every image file without such a number
\* becomes a page of a successful run.
C10_DroppedOnlyOnEqualNumbers ==
    /\ pc = "collected" =>
         \A e, f \in ImageFiles :
             e # f /\ KeyOf[e.name] = KeyOf[f.name] =>
                 /\ NumberedName[e.name] /\ NumberedName[f.name]
                 /\ NumberOf(e.name) = NumberOf(f.name)
    /\ pc = "collected" =>
         \A e \in ImageFiles :
             (\A i \in 1..Len(sorted_files) : sorted_files[i] # e.name) =>
                 \E f \in ImageFiles :
                     /\ f # e
                     /\ NumberedName[e.name] /\ NumberedName[f.name]
                     /\ NumberOf(e.name) = NumberOf(f.name)
    /\ pc = "ok" =>
         \A e \in ImageFiles :
             ~NumberedName[e.name] =>
                 \E i \in ObjectsOfKind("Page") : objs[i].src = e.name

\* The page with its content stream and image object at position i of the
\* Pdf shows the pixel size of the image it was made from.
PageShowsPixelSize(i) ==
    LET e == EntryOf(objs[i].src)
    IN  /\ F32IsInt(objs[i].media_box[1], 0)
        /\ F32IsInt(objs[i].media_box[2], 0)
        /\ F32IsInt(objs[i].media_box[3], e.width)
        /\ F32IsInt(objs[i].media_box[4], e.height)
        /\ objs[i - 1].kind = "Stream"
        /\ objs[i - 1].id = objs[i].contents
        /\ F32IsInt(objs[i - 1].scale_x, e.width)
        /\ F32IsInt(objs[i - 1].scale_y, e.height)
        /\ objs[i - 2].kind = "Image"
        /\ objs[i - 2].id = objs[i].Im1
        /\ objs[i - 2].width = e.width
        /\ objs[i - 2].height = e.height

\* C9 as stated: for every W and H, the page size add_image_as_page
\* computes in f32 as W / 72 * 72 and H / 72 * 72 is W and H, and the page
\* box, the scale of the content stream and the declared size of the image
\* object are W and H.
C9_PageSizeIsPixelSize ==
    /\ pc = "encode" =>
         /\ F32IsInt(page_size[1], image.width)
         /\ F32IsInt(page_size[2], image.height)
    /\ \A i \in ObjectsOfKind("Page") : PageShowsPixelSize(i)

\* 65535, the largest width and height a JPEG frame declares.
MaxJpegSide == Pow2(16) - 1

\* C9, amended: the same for every W and H up to 65535.
C9_PageSizeIsPixelSizeUpTo65535 ==
    /\ pc = "encode" =>
         /\ image.width <= MaxJpegSide =>
              F32IsInt(page_size[1], image.width)
         /\ image.height <= MaxJpegSide =>
              F32IsInt(page_size[2], image.height)
    /\ \A i \in ObjectsOfKind("Page") :
         /\ EntryOf(objs[i].src).width <= MaxJpegSide
         /\ EntryOf(objs[i].src).height <= MaxJpegSide
         => PageShowsPixelSize(i)

\* A written page of a large image whose width and height are not multiples
\* of 9, so that neither quotient by 72 is exact in binary.
C9_Witness ==
    /\ pc = "ok"
    /\ \E i \in ObjectsOfKind("Page") :
         LET e == EntryOf(objs[i].src)
         IN  /\ e.width % 9 # 0 /\ e.height % 9 # 0
             /\ e.width > 60000 /\ e.height > 1
             /\ PageShowsPixelSize(i)

=============================================================================
